---- MODULE Spec2Model ----
(***************************************************************************)
(* Server Monitor Discord Bot (server_monitor_bot.py).                     *)
(*                                                                         *)
(* Three specifications over one set of variables:                         *)
(*   Spec        the process lifecycle, the publisher loop update_stats    *)
(*               with its awaits, the command handlers and the chat server *)
(*   SpecUptime  get_server_uptime over bounded tool outputs               *)
(*   SpecBar     create_progress_bar over bounded percents and lengths     *)
(***************************************************************************)
EXTENDS Integers, Sequences, FiniteSets, TLC

VARIABLES
    \* ---- configuration, loaded once at import
    DISCORD_TOKEN,        \* os.getenv('DISCORD_TOKEN'): "<None>", "" or a token
    MONITOR_CHANNEL_ID,   \* int(os.getenv('MONITOR_CHANNEL_ID', 0))
    \* ---- process and client
    phase,                \* "init" | "inert" | "running" (bot.run entered)
    ready,                \* the client's ready flag (bot.wait_until_ready)
    readyPending,         \* a dispatched on_ready event not yet handled
    readyCount,           \* number of READY events received so far
    \* ---- the tasks.loop task running update_stats
    loop,                 \* "unstarted" | "before_loop" | "idle" | "fetch" | "edit"
                          \* | "fallback_send" | "send" | "failed"
    monitor_message_id,   \* the module global, None or a message id
    \* ---- the chat server
    nextId,               \* the id the next created message gets
    messages,             \* ids of the status messages that exist in the channel
    \* ---- command handlers
    cmdCount,             \* command invocations handled so far
    cmdAwait,             \* a command ran while a tick was suspended at an await
    \* ---- observation of the run (history)
    cur,                  \* the latest tick: where it started and the calls it made
    prev,                 \* the tick before it
    escaped,              \* an exception left update_stats
    firstSent,            \* id returned by the first send of the process
    replaced,             \* a fallback send has replaced the tracked message
    streak,               \* k > 0: the first send was k-1 ticks ago and every tick
                          \* since fetched and edited successfully; 0 otherwise
    \* ---- get_server_uptime
    upc,                  \* "off" | "start" | "fallback" | "done"
    neofetch,             \* what subprocess.run(['neofetch', '--stdout']) does
    platform_system,      \* platform.system()
    uptimeRun,            \* what the run of the platform's uptime command did
    uptimeResult,         \* what get_server_uptime returned, or that it raised
    \* ---- create_progress_bar
    bpc,                  \* "off" | "start" | "done"
    percent,              \* the argument percent, in units of 1 / PercentScale
    length,               \* the argument length, given or left to its default
    bar                   \* the returned string, a sequence of glyphs

cfgVars == <<DISCORD_TOKEN, MONITOR_CHANNEL_ID>>
clientVars == <<phase, ready, readyPending, readyCount>>
chatVars == <<nextId, messages>>
cmdVars == <<cmdCount, cmdAwait>>
pubVars == <<cfgVars, clientVars, loop, monitor_message_id, chatVars, cmdVars,
             cur, prev, escaped, firstSent, replaced, streak>>
upVars == <<upc, neofetch, platform_system, uptimeRun, uptimeResult>>
barVars == <<bpc, percent, length, bar>>
vars == <<pubVars, upVars, barVars>>

----------------------------------------------------------------------------
\* Bounds of the model

MaxChannelId == 1     \* configured channel ids are 0 (unset) .. MaxChannelId
MaxId == 3            \* the chat server hands out message ids 1 .. MaxId
MaxReady == 2         \* READY events (first connect and reconnects)
MaxCommands == 1      \* command invocations
MaxStreak == 3        \* cap of the streak counter

----------------------------------------------------------------------------
\* Values

\* Python's None for monitor_message_id; message ids are positive.
None == 0

\* `if monitor_message_id:` -- None and 0 are both falsy.
Truthy(x) == x # None /\ x # 0

\* `if not DISCORD_TOKEN:` -- None and the empty string are falsy.
TokenFalsy(t) == t \in {"<None>", ""}

Call(op, id, res) == [op |-> op, id |-> id, res |-> res]

NoTick == [began |-> FALSE, resolved |-> FALSE, start |-> None, calls |-> <<>>]

\* The last call of the running tick, the one the tick is suspended on.
Pending == cur.calls[Len(cur.calls)]

\* The running tick's calls with the pending one answered.
Answered(res, id) ==
    [i \in 1..Len(cur.calls) |->
        IF i = Len(cur.calls) THEN Call(Pending.op, id, res) ELSE cur.calls[i]]

Min(a, b) == IF a < b THEN a ELSE b

pubInit ==
    /\ phase = "init"
    /\ ready = FALSE
    /\ readyPending = FALSE
    /\ readyCount = 0
    /\ loop = "unstarted"
    /\ monitor_message_id = None
    /\ nextId = 1
    /\ messages = {}
    /\ cmdCount = 0
    /\ cmdAwait = FALSE
    /\ cur = NoTick
    /\ prev = NoTick
    /\ escaped = FALSE
    /\ firstSent = None
    /\ replaced = FALSE
    /\ streak = 0

pubOff ==
    /\ DISCORD_TOKEN = "<None>"
    /\ MONITOR_CHANNEL_ID = 0
    /\ pubInit

upOff ==
    /\ upc = "off"
    /\ neofetch = [kind |-> "ok", stdout |-> <<>>]
    /\ platform_system = "Linux"
    /\ uptimeRun = [kind |-> "notrun", stdout |-> <<>>]
    /\ uptimeResult = [raised |-> FALSE, value |-> <<>>]

barOff ==
    /\ bpc = "off"
    /\ percent = 0
    /\ length = [given |-> FALSE, value |-> 0]
    /\ bar = <<>>

Init ==
    /\ DISCORD_TOKEN \in {"<None>", "", "token"}
    /\ MONITOR_CHANNEL_ID \in 0..MaxChannelId
    /\ pubInit
    /\ upOff
    /\ barOff

----------------------------------------------------------------------------
\* Process lifecycle

\* The module runs the client whatever the token is.
Main_IgnoresToken ==
    /\ phase = "init"
    /\ phase' = "running"
    /\ UNCHANGED <<cfgVars, ready, readyPending, readyCount, loop, monitor_message_id,
                   chatVars, cmdVars, cur, prev, escaped, firstSent, replaced, streak>>
    /\ UNCHANGED <<upVars, barVars>>

\* if __name__ == "__main__": no token -> print and do nothing; else bot.run.
Main ==
    /\ phase = "init"
    /\ phase' = IF TokenFalsy(DISCORD_TOKEN) THEN "inert" ELSE "running"
    /\ UNCHANGED <<cfgVars, ready, readyPending, readyCount, loop, monitor_message_id,
                   chatVars, cmdVars, cur, prev, escaped, firstSent, replaced, streak>>
    /\ UNCHANGED <<upVars, barVars>>

\* The gateway session becomes ready: the client sets its ready flag and
\* dispatches on_ready (again after a reconnect that could not resume).
Connect ==
    /\ phase = "running"
    /\ ~readyPending
    /\ readyCount < MaxReady
    /\ ready' = TRUE
    /\ readyPending' = TRUE
    /\ readyCount' = readyCount + 1
    /\ UNCHANGED <<cfgVars, phase, loop, monitor_message_id,
                   chatVars, cmdVars, cur, prev, escaped, firstSent, replaced, streak>>
    /\ UNCHANGED <<upVars, barVars>>

\* on_ready: update_stats.start(). start() creates the task unless one is still
\* running, in which case it raises inside the handler and nothing changes.
on_ready ==
    /\ readyPending
    /\ readyPending' = FALSE
    /\ loop' = IF loop \in {"unstarted", "failed"} THEN "before_loop" ELSE loop
    /\ UNCHANGED <<cfgVars, phase, ready, readyCount, monitor_message_id,
                   chatVars, cmdVars, cur, prev, escaped, firstSent, replaced, streak>>
    /\ UNCHANGED <<upVars, barVars>>

\* before_update_stats: await bot.wait_until_ready().
before_update_stats ==
    /\ loop = "before_loop"
    /\ ready
    /\ loop' = "idle"
    /\ UNCHANGED <<cfgVars, clientVars, monitor_message_id,
                   chatVars, cmdVars, cur, prev, escaped, firstSent, replaced, streak>>
    /\ UNCHANGED <<upVars, barVars>>

----------------------------------------------------------------------------
\* update_stats, one action per stretch between two awaits

\* The tick as it stands when update_stats is entered. `found` is whether
\* bot.get_channel returned a channel.
Begun(found) ==
    [began |-> TRUE, resolved |-> MONITOR_CHANNEL_ID # 0 /\ found,
     start |-> monitor_message_id, calls |-> <<>>]

\* From `global monitor_message_id` to the first await: a fetch of the tracked
\* message, or the initial send.
Publish(found) ==
    IF Truthy(monitor_message_id)
    THEN /\ cur' = [Begun(found) EXCEPT
                      !.calls = <<Call("fetch", monitor_message_id, "pending")>>]
         /\ loop' = "fetch"
         /\ streak' = streak
    ELSE /\ cur' = [Begun(found) EXCEPT !.calls = <<Call("send", None, "pending")>>]
         /\ loop' = "send"
         /\ streak' = 0

\* The `if not channel` check is missing.
TickStart_NoChannelCheck ==
    /\ loop = "idle"
    /\ prev' = cur
    /\ \E found \in BOOLEAN :
        IF MONITOR_CHANNEL_ID = 0
        THEN /\ cur' = Begun(found)
             /\ loop' = "idle"
             /\ streak' = 0
        ELSE Publish(found)
    /\ UNCHANGED <<cfgVars, clientVars, monitor_message_id, chatVars, cmdVars,
                   escaped, firstSent, replaced>>
    /\ UNCHANGED <<upVars, barVars>>

\* The initial send is made whether or not a message is tracked.
TickStart_AlwaysSends ==
    /\ loop = "idle"
    /\ prev' = cur
    /\ \E found \in BOOLEAN :
        IF MONITOR_CHANNEL_ID = 0 \/ ~found
        THEN /\ cur' = Begun(found)
             /\ loop' = "idle"
             /\ streak' = 0
        ELSE /\ cur' = [Begun(found) EXCEPT !.calls = <<Call("send", None, "pending")>>]
             /\ loop' = "send"
             /\ streak' = streak
    /\ UNCHANGED <<cfgVars, clientVars, monitor_message_id, chatVars, cmdVars,
                   escaped, firstSent, replaced>>
    /\ UNCHANGED <<upVars, barVars>>

\* Entry of a tick up to its first await: the two channel checks (each returns
\* from the tick), the embed, and the branch on monitor_message_id.
TickStart ==
    /\ loop = "idle"
    /\ prev' = cur
    /\ \E found \in BOOLEAN :
        IF MONITOR_CHANNEL_ID = 0 \/ ~found
        THEN /\ cur' = Begun(found)
             /\ loop' = "idle"
             /\ streak' = 0
        ELSE Publish(found)
    /\ UNCHANGED <<cfgVars, clientVars, monitor_message_id, chatVars, cmdVars,
                   escaped, firstSent, replaced>>
    /\ UNCHANGED <<upVars, barVars>>

\* The server's answers to a fetch or an edit of message m: it succeeds only on a
\* message that exists and says NotFound only of one that does not; Forbidden
\* and any other HTTPException can come at any time.
LookupOutcomes(m) ==
    (IF m \in messages THEN {"ok"} ELSE {"NotFound"}) \cup {"Forbidden", "HTTPException"}

\* A send creates a message (while the model has ids left) or fails with any of
\* the three errors.
SendOutcomes ==
    (IF nextId <= MaxId THEN {"ok"} ELSE {}) \cup {"NotFound", "Forbidden", "HTTPException"}

\* The tick returns (or falls off the end of update_stats).
Return(res, id) ==
    /\ cur' = [cur EXCEPT !.calls = Answered(res, id)]
    /\ loop' = "idle"

\* except discord.NotFound: the handler's `await channel.send(embed=embed)`.
ToFallbackSend(res) ==
    /\ cur' = [cur EXCEPT !.calls = Answered(res, Pending.id)
                                      \o <<Call("send", None, "pending")>>]
    /\ loop' = "fallback_send"

\* except discord.Forbidden runs the NotFound handler's send.
Fetch_ForbiddenSends ==
    /\ loop = "fetch"
    /\ \E res \in LookupOutcomes(Pending.id) :
        /\ IF res = "ok"
           THEN /\ cur' = [cur EXCEPT !.calls = Answered("ok", Pending.id)
                                        \o <<Call("edit", Pending.id, "pending")>>]
                /\ loop' = "edit"
           ELSE IF res \in {"NotFound", "Forbidden"} THEN ToFallbackSend(res)
           ELSE Return(res, Pending.id)
        /\ streak' = IF res = "ok" THEN streak ELSE 0
    /\ UNCHANGED <<cfgVars, clientVars, monitor_message_id, chatVars, cmdVars,
                   prev, escaped, firstSent, replaced>>
    /\ UNCHANGED <<upVars, barVars>>

\* except discord.Forbidden forgets the tracked message.
Fetch_ForbiddenClears ==
    /\ loop = "fetch"
    /\ \E res \in LookupOutcomes(Pending.id) :
        /\ IF res = "ok"
           THEN /\ cur' = [cur EXCEPT !.calls = Answered("ok", Pending.id)
                                        \o <<Call("edit", Pending.id, "pending")>>]
                /\ loop' = "edit"
           ELSE IF res = "NotFound" THEN ToFallbackSend(res)
           ELSE Return(res, Pending.id)
        /\ streak' = IF res = "ok" THEN streak ELSE 0
        /\ monitor_message_id' = IF res = "Forbidden" THEN None ELSE monitor_message_id
    /\ UNCHANGED <<cfgVars, clientVars, chatVars, cmdVars,
                   prev, escaped, firstSent, replaced>>
    /\ UNCHANGED <<upVars, barVars>>

\* The answer to `await channel.fetch_message(monitor_message_id)`: go on to the
\* edit, or into the NotFound handler, or log and return.
Fetch ==
    /\ loop = "fetch"
    /\ \E res \in LookupOutcomes(Pending.id) :
        /\ IF res = "ok"
           THEN /\ cur' = [cur EXCEPT !.calls = Answered("ok", Pending.id)
                                        \o <<Call("edit", Pending.id, "pending")>>]
                /\ loop' = "edit"
           ELSE IF res = "NotFound" THEN ToFallbackSend(res)
           ELSE Return(res, Pending.id)
        /\ streak' = IF res = "ok" THEN streak ELSE 0
    /\ UNCHANGED <<cfgVars, clientVars, monitor_message_id, chatVars, cmdVars,
                   prev, escaped, firstSent, replaced>>
    /\ UNCHANGED <<upVars, barVars>>

\* The answer to `await message.edit(embed=embed)`.
Edit ==
    /\ loop = "edit"
    /\ \E res \in LookupOutcomes(Pending.id) :
        /\ IF res = "NotFound" THEN ToFallbackSend(res) ELSE Return(res, Pending.id)
        /\ streak' = IF res = "ok" /\ streak > 0 THEN Min(streak + 1, MaxStreak) ELSE 0
    /\ UNCHANGED <<cfgVars, clientVars, monitor_message_id, chatVars, cmdVars,
                   prev, escaped, firstSent, replaced>>
    /\ UNCHANGED <<upVars, barVars>>

\* The new message's id is not stored.
FallbackSend_NoStore ==
    /\ loop = "fallback_send"
    /\ \E res \in SendOutcomes :
        IF res = "ok"
        THEN /\ Return("ok", nextId)
             /\ nextId' = nextId + 1
             /\ messages' = messages \cup {nextId}
             /\ replaced' = TRUE
             /\ UNCHANGED <<monitor_message_id, escaped>>
        ELSE /\ cur' = [cur EXCEPT !.calls = Answered(res, None)]
             /\ loop' = "failed"
             /\ escaped' = TRUE
             /\ UNCHANGED <<monitor_message_id, chatVars, replaced>>
    /\ UNCHANGED <<cfgVars, clientVars, cmdVars, prev, firstSent, streak>>
    /\ UNCHANGED <<upVars, barVars>>

\* The answer to the send made inside `except discord.NotFound:`. On success the
\* new id is stored. The send is inside a handler, so no sibling except clause
\* covers it: an error leaves update_stats and ends the loop's task.
FallbackSend ==
    /\ loop = "fallback_send"
    /\ \E res \in SendOutcomes :
        IF res = "ok"
        THEN /\ Return("ok", nextId)
             /\ monitor_message_id' = nextId
             /\ nextId' = nextId + 1
             /\ messages' = messages \cup {nextId}
             /\ replaced' = TRUE
             /\ UNCHANGED escaped
        ELSE /\ cur' = [cur EXCEPT !.calls = Answered(res, None)]
             /\ loop' = "failed"
             /\ escaped' = TRUE
             /\ UNCHANGED <<monitor_message_id, chatVars, replaced>>
    /\ UNCHANGED <<cfgVars, clientVars, cmdVars, prev, firstSent, streak>>
    /\ UNCHANGED <<upVars, barVars>>

\* The answer to the initial send (the else branch): store the id, or log the
\* error and return (NotFound is an HTTPException and is caught as one).
Send ==
    /\ loop = "send"
    /\ \E res \in SendOutcomes :
        IF res = "ok"
        THEN /\ Return("ok", nextId)
             /\ monitor_message_id' = nextId
             /\ nextId' = nextId + 1
             /\ messages' = messages \cup {nextId}
             /\ firstSent' = IF firstSent = None THEN nextId ELSE firstSent
             /\ streak' = IF firstSent = None THEN 1 ELSE 0
        ELSE /\ Return(res, None)
             /\ streak' = 0
             /\ UNCHANGED <<monitor_message_id, chatVars, firstSent>>
    /\ UNCHANGED <<cfgVars, clientVars, cmdVars, prev, escaped, replaced>>
    /\ UNCHANGED <<upVars, barVars>>

----------------------------------------------------------------------------
\* The chat server and the command handlers

\* Someone deletes a status message in the channel.
DeleteMessage ==
    /\ \E m \in messages : messages' = messages \ {m}
    /\ UNCHANGED <<cfgVars, clientVars, loop, monitor_message_id, nextId, cmdVars,
                   cur, prev, escaped, firstSent, replaced, streak>>
    /\ UNCHANGED <<upVars, barVars>>

InAwait == loop \in {"fetch", "edit", "fallback_send", "send"}

\* A command handler: build an embed and `await ctx.send(embed=embed)`, a reply
\* in the invoking context. It runs whenever the event loop is free, which
\* includes the awaits of a tick.
Reply ==
    /\ ready
    /\ cmdCount < MaxCommands
    /\ cmdCount' = cmdCount + 1
    /\ cmdAwait' = (cmdAwait \/ InAwait)
    /\ UNCHANGED <<cfgVars, clientVars, loop, chatVars,
                   cur, prev, escaped, firstSent, replaced, streak>>
    /\ UNCHANGED <<upVars, barVars>>

\* The handler keeps its reply as the tracked message.
stats_TracksReply ==
    /\ Reply
    /\ \E m \in 1..MaxId : monitor_message_id' = m

stats == Reply /\ UNCHANGED monitor_message_id

uptime == Reply /\ UNCHANGED monitor_message_id

cpu == Reply /\ UNCHANGED monitor_message_id

memory == Reply /\ UNCHANGED monitor_message_id

disk == Reply /\ UNCHANGED monitor_message_id

network == Reply /\ UNCHANGED monitor_message_id

help_monitor == Reply /\ UNCHANGED monitor_message_id

Next ==
    \/ Main
    \/ Connect
    \/ on_ready
    \/ before_update_stats
    \/ TickStart
    \/ Fetch
    \/ Edit
    \/ FallbackSend
    \/ Send
    \/ DeleteMessage
    \/ stats
    \/ uptime
    \/ cpu
    \/ memory
    \/ disk
    \/ network
    \/ help_monitor

Spec == Init /\ [][Next]_vars

----------------------------------------------------------------------------
\* get_server_uptime
\*
\* Text is a sequence of tokens: the two literals the regular expressions look
\* for, the characters that end a match or that strip() removes, and one
\* ordinary character. "up" and "Uptime:" are what strip() leaves of a final
\* "up " or "Uptime: "; they occur in results only.

MaxLen == 4           \* tokens in a command's output

NL == "\n"
Tokens == {"Uptime: ", "up ", ",", NL, " ", "d"}
Whitespace == {" ", NL}

RECURSIVE SeqsUpTo(_)
SeqsUpTo(n) ==
    IF n = 0 THEN {<<>>}
    ELSE LET shorter == SeqsUpTo(n - 1)
         IN  shorter \cup {Append(s, t) : s \in {x \in shorter : Len(x) = n - 1}, t \in Tokens}

Outputs == SeqsUpTo(MaxLen)

SentinelFormat == <<"Unknown (neofetch available but format not recognized)">>
SentinelUnavailable == <<"Unknown (neofetch not available)">>

NoMatch == [found |-> FALSE, group |-> <<>>]
Match(g) == [found |-> TRUE, group |-> g]

\* `(.+)`: as many characters as there are before the end of the line.
RECURSIVE RestOfLine(_)
RestOfLine(s) ==
    IF s = <<>> \/ Head(s) = NL THEN <<>>
    ELSE <<Head(s)>> \o RestOfLine(Tail(s))

\* re.search(r'Uptime: (.+)', s): the leftmost position that matches.
RECURSIVE SearchUptime(_)
SearchUptime(s) ==
    IF s = <<>> THEN NoMatch
    ELSE IF Head(s) = "Uptime: " /\ RestOfLine(Tail(s)) # <<>>
         THEN Match(RestOfLine(Tail(s)))
         ELSE SearchUptime(Tail(s))

\* `(.+?)` followed by one of `stops`, with `acc` matched so far: as few
\* characters as possible, none of them a newline.
RECURSIVE LazyUntil(_, _, _)
LazyUntil(acc, s, stops) ==
    IF s = <<>> THEN NoMatch
    ELSE IF Head(s) \in stops THEN Match(acc)
    ELSE IF Head(s) = NL THEN NoMatch
    ELSE LazyUntil(Append(acc, Head(s)), Tail(s), stops)

\* re.search(r'up (.+?)(,|\n)', s) with stops = {",", NL};
\* re.search(r'up (.+?),', s) with stops = {","}.
RECURSIVE SearchUp(_, _)
SearchUp(s, stops) ==
    IF s = <<>> THEN NoMatch
    ELSE LET rest == Tail(s)
             here == IF Head(s) = "up " /\ rest # <<>> /\ Head(rest) # NL
                     THEN LazyUntil(<<Head(rest)>>, Tail(rest), stops)
                     ELSE NoMatch
         IN  IF here.found THEN here ELSE SearchUp(rest, stops)

RECURSIVE LStrip(_)
LStrip(s) ==
    IF s # <<>> /\ Head(s) \in Whitespace THEN LStrip(Tail(s)) ELSE s

RECURSIVE RStrip(_)
RStrip(s) ==
    IF s = <<>> THEN s
    ELSE LET last == s[Len(s)]
             front == SubSeq(s, 1, Len(s) - 1)
         IN  IF last \in Whitespace THEN RStrip(front)
             ELSE IF last = "up " THEN Append(front, "up")
             ELSE IF last = "Uptime: " THEN Append(front, "Uptime:")
             ELSE s

\* str.strip()
Strip(s) == RStrip(LStrip(s))

\* str.replace('up ', '')
RemoveUp(s) == SelectSeq(s, LAMBDA t : t # "up ")

Returned(v) == [raised |-> FALSE, value |-> v]
Raised == [raised |-> TRUE, value |-> <<>>]

NotRun == [kind |-> "notrun", stdout |-> <<>>]

InitUptime ==
    /\ pubOff
    /\ barOff
    /\ upc = "start"
    /\ neofetch \in {[kind |-> "ok", stdout |-> o] : o \in Outputs}
                    \cup {[kind |-> k, stdout |-> <<>>] :
                            k \in {"FileNotFoundError", "SubprocessError", "PermissionError"}}
    /\ platform_system \in {"Linux", "Darwin", "Windows"}
    /\ uptimeRun = NotRun
    /\ uptimeResult = Returned(<<>>)

\* The two patterns are tried in the other order.
RunNeofetch_UpFirst ==
    /\ upc = "start"
    /\ IF neofetch.kind = "ok"
       THEN LET output == neofetch.stdout
                first == SearchUp(output, {",", NL})
                second == SearchUptime(output)
            IN  /\ uptimeResult' =
                      IF first.found THEN Returned(Strip(first.group))
                      ELSE IF second.found THEN Returned(Strip(second.group))
                      ELSE Returned(SentinelFormat)
                /\ upc' = "done"
       ELSE IF neofetch.kind \in {"FileNotFoundError", "SubprocessError"}
       THEN /\ upc' = "fallback"
            /\ UNCHANGED uptimeResult
       ELSE /\ uptimeResult' = Raised
            /\ upc' = "done"
    /\ UNCHANGED <<neofetch, platform_system, uptimeRun>>
    /\ UNCHANGED <<pubVars, barVars>>

\* The outer try of get_server_uptime: run neofetch and search its output. A
\* FileNotFoundError or SubprocessError enters the except block; any other
\* error of subprocess.run (a PermissionError, say) is not caught.
RunNeofetch ==
    /\ upc = "start"
    /\ IF neofetch.kind = "ok"
       THEN LET output == neofetch.stdout
                first == SearchUptime(output)
                second == SearchUp(output, {",", NL})
            IN  /\ uptimeResult' =
                      IF first.found THEN Returned(Strip(first.group))
                      ELSE IF second.found THEN Returned(Strip(second.group))
                      ELSE Returned(SentinelFormat)
                /\ upc' = "done"
       ELSE IF neofetch.kind \in {"FileNotFoundError", "SubprocessError"}
       THEN /\ upc' = "fallback"
            /\ UNCHANGED uptimeResult
       ELSE /\ uptimeResult' = Raised
            /\ upc' = "done"
    /\ UNCHANGED <<neofetch, platform_system, uptimeRun>>
    /\ UNCHANGED <<pubVars, barVars>>

\* The except block: the platform's own uptime command, whose every error is
\* caught, then the final return.
Fallback ==
    /\ upc = "fallback"
    /\ upc' = "done"
    /\ IF platform_system \in {"Linux", "Darwin"}
       THEN \E cmd \in {[kind |-> "ok", stdout |-> o] : o \in Outputs}
                       \cup {[kind |-> "error", stdout |-> <<>>]} :
              /\ uptimeRun' = cmd
              /\ uptimeResult' =
                    IF cmd.kind = "error" THEN Returned(SentinelUnavailable)
                    ELSE IF platform_system = "Linux"
                    THEN Returned(RemoveUp(Strip(cmd.stdout)))
                    ELSE LET m == SearchUp(cmd.stdout, {","})
                         IN  IF m.found THEN Returned(Strip(m.group))
                             ELSE Returned(SentinelUnavailable)
       ELSE /\ uptimeRun' = NotRun
            /\ uptimeResult' = Returned(SentinelUnavailable)
    /\ UNCHANGED <<neofetch, platform_system>>
    /\ UNCHANGED <<pubVars, barVars>>

NextUptime ==
    \/ RunNeofetch
    \/ Fallback

SpecUptime == InitUptime /\ [][NextUptime]_vars

----------------------------------------------------------------------------
\* create_progress_bar
\*
\* A percent is percent / PercentScale; the product length * percent / 100 is
\* taken exactly.

PercentScale == 2     \* percents are multiples of 1 / PercentScale
MaxBarLen == 12       \* explicit bar lengths are 0 .. MaxBarLen

DefaultLength == 10

FilledGlyph == "full block"
EmptyGlyph == "light shade"

\* int(a / b) for b > 0: towards zero.
Trunc(a, b) == IF a >= 0 THEN a \div b ELSE -((-a) \div b)

\* glyph * n: empty for n <= 0.
Times(glyph, n) == IF n <= 0 THEN <<>> ELSE [i \in 1..n |-> glyph]

\* int() is replaced by rounding up.
create_progress_bar_RoundsUp(p, len) ==
    LET filled_length == Trunc(len * p + 100 * PercentScale - 1, 100 * PercentScale)
    IN  Times(FilledGlyph, filled_length) \o Times(EmptyGlyph, len - filled_length)

create_progress_bar(p, len) ==
    LET filled_length == Trunc(len * p, 100 * PercentScale)
    IN  Times(FilledGlyph, filled_length) \o Times(EmptyGlyph, len - filled_length)

\* The length a call passes, or the default of the parameter.
Effective(l) == IF l.given THEN l.value ELSE DefaultLength

InitBar ==
    /\ pubOff
    /\ upOff
    /\ bpc = "start"
    /\ percent \in 0..(100 * PercentScale)
    /\ length \in {[given |-> TRUE, value |-> n] : n \in 0..MaxBarLen}
                  \cup {[given |-> FALSE, value |-> 0]}
    /\ bar = <<>>

CallBar ==
    /\ bpc = "start"
    /\ bar' = create_progress_bar(percent, Effective(length))
    /\ bpc' = "done"
    /\ UNCHANGED <<percent, length>>
    /\ UNCHANGED <<pubVars, upVars>>

NextBar == CallBar

SpecBar == InitBar /\ [][NextBar]_vars

----------------------------------------------------------------------------
\* Properties of the publisher loop (under Spec)

\* The positions of tick t's calls of kind op.
CallsOf(t, ops) == {i \in 1..Len(t.calls) : t.calls[i].op \in ops}

LastCall(t) == t.calls[Len(t.calls)]

\* A fetch or an edit of the tracked message came back NotFound in tick t.
NotFoundOnTracked(t) ==
    \E i \in CallsOf(t, {"fetch", "edit"}) : t.calls[i].res = "NotFound"

\* The latest tick has run to its end (by returning or by raising).
TickOver == cur.began /\ ~InAwait

\* Tick t started with a tracked message and a channel that resolved.
TrackedTick(t) == t.began /\ t.resolved /\ Truthy(t.start)

\* Tick t fetched and edited, both with success.
FetchedAndEdited(t) ==
    /\ \E i \in CallsOf(t, {"fetch"}) : t.calls[i].res = "ok"
    /\ \E i \in CallsOf(t, {"edit"}) : t.calls[i].res = "ok"

\* Tick t started with nothing tracked and its send succeeded.
FreshSendOk(t) ==
    /\ t.began /\ t.resolved /\ ~Truthy(t.start)
    /\ Len(t.calls) = 1 /\ t.calls[1].op = "send" /\ t.calls[1].res = "ok"

\* Tick t's initial send, or its fetch or edit of the tracked message, failed
\* with Forbidden or with another HTTP error.
FailedAttempt(t) ==
    /\ t.began /\ t.resolved /\ Len(t.calls) >= 1
    /\ LastCall(t).res \in {"Forbidden", "HTTPException"}
    /\ \/ LastCall(t).op \in {"fetch", "edit"}
       \/ LastCall(t).op = "send" /\ Len(t.calls) = 1

\* C1 (as amended): in a tick that starts with a tracked message and a resolved
\* channel, a NotFound from the fetch or the edit is followed in the same tick
\* by exactly one send; if that send succeeds the tracked id at the end of the
\* tick is the id of the new message, and if it fails the tracked id is the one
\* the tick started with and the error has left update_stats.
C1_NotFoundSendsAndTracks ==
    (TrackedTick(cur) /\ NotFoundOnTracked(cur)) =>
        /\ Cardinality(CallsOf(cur, {"send"})) = 1
        /\ LastCall(cur).op = "send"
        /\ cur.calls[Len(cur.calls) - 1].res = "NotFound"
        /\ TickOver =>
              IF LastCall(cur).res = "ok"
              THEN /\ monitor_message_id = LastCall(cur).id
                   /\ LastCall(cur).id # cur.start
                   /\ LastCall(cur).id = nextId - 1
              ELSE /\ monitor_message_id = cur.start
                   /\ escaped

\* C1 (as stated): every tick that starts with a tracked message and a
\* resolved channel and gets NotFound ends with the tracked id being the id of
\* a message that tick has sent.
C1_Original ==
    (TrackedTick(cur) /\ NotFoundOnTracked(cur) /\ TickOver) =>
        /\ LastCall(cur).op = "send"
        /\ LastCall(cur).res = "ok"
        /\ monitor_message_id = LastCall(cur).id

\* C1's case: the edit of message 1 came back NotFound, the tick sent message 2
\* and tracks it.
C1_Witness ==
    /\ TickOver
    /\ cur.start = 1
    /\ cur.calls = <<Call("fetch", 1, "ok"), Call("edit", 1, "NotFound"),
                     Call("send", 2, "ok")>>
    /\ monitor_message_id = 2

\* C2: once the first send of the process has returned id m, and as long as no
\* fallback send has replaced the message, the tracked id is m; the tick after
\* the send starts with a fetch of m; and every later tick in which fetch and
\* edit succeed makes exactly these two calls, both on m, and no send.
C2_EditsReuseSentMessage ==
    /\ FreshSendOk(cur) /\ TickOver => firstSent = cur.calls[1].id
    /\ (firstSent # None /\ ~replaced) => monitor_message_id = firstSent
    /\ (FreshSendOk(prev) /\ cur.resolved) =>
          /\ cur.calls[1].op = "fetch"
          /\ cur.calls[1].id = prev.calls[1].id
    /\ (firstSent # None /\ ~replaced /\ FetchedAndEdited(cur)) =>
          /\ cur.start = firstSent
          /\ cur.calls = <<Call("fetch", firstSent, "ok"), Call("edit", firstSent, "ok")>>

\* C2's case: the send of tick 1 returned id 1 and ticks 2 and 3 both fetched
\* and edited message 1.
C2_Witness ==
    /\ streak >= 3
    /\ TickOver
    /\ firstSent = 1
    /\ FetchedAndEdited(prev) /\ prev.calls[2].id = 1
    /\ FetchedAndEdited(cur) /\ cur.calls[2].id = 1
    /\ monitor_message_id = 1

\* C3: no error of a chat API call leaves update_stats, and the loop's task is
\* never ended by one.
C3_NoErrorEscapes ==
    /\ ~escaped
    /\ loop # "failed"

\* C4 (as amended): a tick whose initial send, or whose fetch or edit, fails
\* with Forbidden or another HTTP error leaves the tracked reference as it
\* was, and the next tick, provided the channel resolves in it, starts with
\* the same kind of call: a send if nothing is tracked, a fetch of the same id
\* otherwise.
C4_FailureKeepsReference ==
    /\ FailedAttempt(cur) =>
          /\ monitor_message_id = cur.start
          /\ loop = "idle"
    /\ (FailedAttempt(prev) /\ cur.resolved) =>
          /\ cur.start = prev.start
          /\ IF Truthy(prev.start)
             THEN cur.calls[1].op = "fetch" /\ cur.calls[1].id = prev.start
             ELSE cur.calls[1].op = "send"

\* C4 (as stated): after such a failed tick the next tick always makes the
\* same kind of attempt.
C4_Original ==
    /\ FailedAttempt(cur) => monitor_message_id = cur.start
    /\ FailedAttempt(prev) =>
          /\ cur.start = prev.start
          /\ Len(cur.calls) >= 1
          /\ IF Truthy(prev.start)
             THEN cur.calls[1].op = "fetch" /\ cur.calls[1].id = prev.start
             ELSE cur.calls[1].op = "send"

\* C4's case: the fetch of message 1 was refused, and the next tick fetches
\* message 1 again.
C4_Witness ==
    /\ prev.calls = <<Call("fetch", 1, "Forbidden")>>
    /\ cur.resolved
    /\ cur.calls[1].op = "fetch" /\ cur.calls[1].id = 1
    /\ monitor_message_id = 1

\* C5: a tick in which the channel does not resolve (MONITOR_CHANNEL_ID is 0,
\* or get_channel finds nothing) makes no fetch, edit or send and leaves the
\* tracked reference as it was.
C5_UnresolvedChannelIsNoop ==
    (cur.began /\ ~cur.resolved) =>
        /\ cur.calls = <<>>
        /\ loop = "idle"
        /\ monitor_message_id = cur.start

\* C5's case: a message is tracked, the channel id is configured, and the
\* lookup found no channel.
C5_Witness ==
    /\ cur.began /\ ~cur.resolved
    /\ MONITOR_CHANNEL_ID # 0
    /\ Truthy(cur.start)
    /\ monitor_message_id = cur.start
    /\ cur.calls = <<>>

\* A step that changes monitor_message_id is the end of a successful send of
\* the publisher: the initial send when nothing was tracked, or the send that
\* follows a NotFound on the tracked message. It is never a command handler's
\* step and never sets the reference back to None.
C6_Write ==
    monitor_message_id' # monitor_message_id =>
        /\ cmdCount' = cmdCount
        /\ loop \in {"send", "fallback_send"}
        /\ loop' = "idle"
        /\ LastCall(cur').op = "send"
        /\ LastCall(cur').res = "ok"
        /\ monitor_message_id' = LastCall(cur').id
        /\ monitor_message_id' = nextId
        /\ Truthy(monitor_message_id')
        /\ loop = "send" => monitor_message_id = None
        /\ loop = "fallback_send" =>
              /\ Truthy(monitor_message_id)
              /\ cur.calls[Len(cur.calls) - 1].op \in {"fetch", "edit"}
              /\ cur.calls[Len(cur.calls) - 1].id = monitor_message_id
              /\ cur.calls[Len(cur.calls) - 1].res = "NotFound"

\* C6: monitor_message_id is None at startup and is written only by the
\* publisher tick, from None to the id of its successful initial send and from
\* an id to the id of the successful send after a NotFound; no command handler
\* writes it and it never goes back to None.
C6_SingleWriter ==
    /\ [](phase = "init" => monitor_message_id = None)
    /\ [][C6_Write]_vars

\* C6's case: the tracked message has been replaced after a NotFound, and a
\* command ran while a tick was suspended at an await.
C6_Witness ==
    /\ replaced
    /\ cmdAwait
    /\ Truthy(firstSent)
    /\ Truthy(monitor_message_id) /\ monitor_message_id # firstSent

\* C7: the loop's task exists, a tick has run or a message has been sent only
\* if the client was started and is ready; with DISCORD_TOKEN missing the
\* client is never started, the loop never starts and nothing is ever sent.
C7_NoTickBeforeReady ==
    /\ (loop # "unstarted" \/ cur.began \/ messages # {} \/ nextId # 1
          \/ monitor_message_id # None \/ cmdCount # 0)
          => (phase = "running" /\ ready /\ readyCount >= 1)
    /\ loop \notin {"unstarted", "before_loop"} => ready
    /\ TokenFalsy(DISCORD_TOKEN) =>
          /\ phase \in {"init", "inert"}
          /\ ~ready /\ ~readyPending
          /\ loop = "unstarted"
          /\ ~cur.began
          /\ messages = {} /\ nextId = 1
          /\ monitor_message_id = None

\* C7's case: a tick has run, after the client became ready.
C7_Witness ==
    /\ cur.began
    /\ Len(cur.calls) >= 1
    /\ ready
    /\ phase = "running"
    /\ DISCORD_TOKEN = "token"

\* C10: a tick makes at most one send, and only if nothing was tracked when it
\* started or a fetch or edit of the tracked message came back NotFound; a
\* tick whose edit succeeded makes no send, and neither does one whose fetch
\* or edit failed with Forbidden or another HTTP error; so a tracked message
\* that still exists is never replaced by a second one.
C10_SendOnlyWhenNoMessage ==
    LET sends == CallsOf(cur, {"send"})
    IN  /\ Cardinality(sends) <= 1
        /\ sends # {} => (~Truthy(cur.start) \/ NotFoundOnTracked(cur))
        /\ (\E i \in CallsOf(cur, {"edit"}) : cur.calls[i].res = "ok") => sends = {}
        /\ (\E i \in CallsOf(cur, {"fetch", "edit"}) :
                cur.calls[i].res \in {"Forbidden", "HTTPException"}) => sends = {}
        /\ (sends # {} /\ Truthy(cur.start)) => cur.start \notin messages

\* C10's case: message 1 is gone, the fetch says NotFound, and the tick makes
\* its one send.
C10_Witness ==
    /\ TickOver
    /\ cur.calls = <<Call("fetch", 1, "NotFound"), Call("send", 2, "ok")>>
    /\ messages = {2}

----------------------------------------------------------------------------
\* Properties of get_server_uptime (under SpecUptime)

\* The output has "Uptime: " followed by at least one character on the line.
HasUptimeLine(o) ==
    \E i \in 1..(Len(o) - 1) : o[i] = "Uptime: " /\ o[i + 1] # NL

\* The text from after the first such "Uptime: " to the end of its line.
UptimeLineText(o) ==
    LET i == CHOOSE i \in 1..(Len(o) - 1) :
                 /\ o[i] = "Uptime: " /\ o[i + 1] # NL
                 /\ \A h \in 1..(i - 1) : ~(o[h] = "Uptime: " /\ o[h + 1] # NL)
        j == CHOOSE j \in (i + 1)..Len(o) :
                 /\ \A x \in (i + 1)..j : o[x] # NL
                 /\ j = Len(o) \/ o[j + 1] = NL
    IN  SubSeq(o, i + 1, j)

\* "up " at i, then the non-empty text up to j, then one of stops, all on one line.
UpSpan(o, i, j, stops) ==
    /\ o[i] = "up "
    /\ i + 1 <= j /\ j + 1 <= Len(o)
    /\ \A x \in (i + 1)..j : o[x] # NL
    /\ o[j + 1] \in stops

HasUpSpan(o, stops) ==
    \E i \in 1..Len(o), j \in 1..Len(o) : UpSpan(o, i, j, stops)

\* The shortest such text after the first "up " that has one.
UpSpanText(o, stops) ==
    LET i == CHOOSE i \in 1..Len(o) :
                 /\ \E j \in 1..Len(o) : UpSpan(o, i, j, stops)
                 /\ \A h \in 1..(i - 1) : \A j \in 1..Len(o) : ~UpSpan(o, h, j, stops)
        j == CHOOSE j \in 1..Len(o) :
                 /\ UpSpan(o, i, j, stops)
                 /\ \A k \in 1..(j - 1) : ~UpSpan(o, i, k, stops)
    IN  SubSeq(o, i + 1, j)

\* (a) and (b) of the chain, which the claim and its amendment share.
UptimePatterns ==
    LET o == neofetch.stdout
    IN  neofetch.kind = "ok" =>
          /\ HasUptimeLine(o) => uptimeResult = Returned(Strip(UptimeLineText(o)))
          /\ (~HasUptimeLine(o) /\ HasUpSpan(o, {",", NL})) =>
                uptimeResult = Returned(Strip(UpSpanText(o, {",", NL})))

----------------------------------------------------------------------------
\* Properties of create_progress_bar (under SpecBar)

\* floor(len * p / 100) for the percent p = percent / PercentScale.
FloorFilled(len) ==
    CHOOSE f \in 0..len :
        /\ f * 100 * PercentScale <= len * percent
        /\ \/ len * percent < (f + 1) * 100 * PercentScale
           \/ f = len

\* C9: for a percent in [0, 100] and a length L >= 0 (10 when not given) the
\* bar has exactly L glyphs: floor(L * p / 100) filled ones, then empty ones.
C9_BarLengthAndFill ==
    bpc = "done" =>
        LET L == IF length.given THEN length.value ELSE 10
        IN  /\ Len(bar) = L
            /\ \A i \in 1..Len(bar) :
                  bar[i] = IF i <= FloorFilled(L) THEN FilledGlyph ELSE EmptyGlyph

\* C9's case: 45.5 percent at the default length gives four filled glyphs and
\* six empty ones.
C9_Witness ==
    /\ bpc = "done"
    /\ ~length.given
    /\ percent = 91 /\ PercentScale = 2
    /\ bar = <<FilledGlyph, FilledGlyph, FilledGlyph, FilledGlyph,
               EmptyGlyph, EmptyGlyph, EmptyGlyph, EmptyGlyph, EmptyGlyph, EmptyGlyph>>

====
